---- MODULE Spec2Model ----
(***************************************************************************)
(* A model of scripts/generate.py: the import fallback that tries to       *)
(* install google-genai, main, validate_api_key, generate_image and        *)
(* save_image.  Text (arguments, the prompt, error messages) is a sequence *)
(* of one-character strings, so that joining, stripping, lower-casing and  *)
(* substring search are computed, not assumed.  A Python exception is a    *)
(* record [cls, text]; an optional value (None or a value) is a sequence   *)
(* of length 0 or 1.                                                       *)
(***************************************************************************)
EXTENDS Integers, Sequences, FiniteSets

VARIABLES
    argv,        \* sys.argv[1:], a sequence of texts
    key,         \* the GEMINI_API_KEY entry of the environment: <<>> when unset, else <<text>>
    pc,          \* the position of the process
    exitCode,    \* -1 while the process runs, then its exit status
    out,         \* what was printed, one tag per message
    prompt,      \* main's local prompt
    keyRead,     \* os.getenv("GEMINI_API_KEY") has been called
    clientMade,  \* genai.Client(...) has been called
    nRequests,   \* calls of client.models.generate_content
    sentPrompt,  \* the contents of the requests issued
    response,    \* the response of the request: [returned, hasParts, parts]
    idx,         \* the position of the for loop over response.parts
    image,       \* generate_image's result: <<>> (None) or <<image>>
    exc,         \* the exception in flight, cls "none" when there is none
    caught,      \* the exceptions the handlers of generate_image and save_image caught
    output_dir,  \* save_image's output_dir argument
    filepath,    \* save_image's local filepath: <<>> before it is computed
    disk,        \* the files this run created: records [path, content]
    saveLog,     \* the save attempts made: records [op, outcome]
    printedPath, \* the path save_image printed: <<>> or <<path>>
    saveResult,  \* save_image's result: <<>> (None) or <<path>>
    reportedName,\* the file name main printed: <<>> or <<name>>
    saveCalls,   \* calls of save_image
    steps,       \* the steps of the flow entered so far, in order
    failedAt     \* -1, or Len(steps) when a step first failed

vars == <<argv, key, pc, exitCode, out, prompt, keyRead, clientMade, nRequests,
          sentPrompt, response, idx, image, exc, caught, output_dir, filepath,
          disk, saveLog, printedPath, saveResult, reportedName, saveCalls,
          steps, failedAt>>

-----------------------------------------------------------------------------
(* Bounds of the model. *)

MaxArgs == 2

MaxParts == 2

-----------------------------------------------------------------------------
(* Text. *)

Whitespace == {" ", "\t", "\n"}

UpperToLower ==
    [A |-> "a", B |-> "b", C |-> "c", D |-> "d", E |-> "e", F |-> "f", G |-> "g",
     H |-> "h", I |-> "i", J |-> "j", K |-> "k", L |-> "l", M |-> "m", N |-> "n",
     O |-> "o", P |-> "p", Q |-> "q", R |-> "r", S |-> "s", T |-> "t", U |-> "u",
     V |-> "v", W |-> "w", X |-> "x", Y |-> "y", Z |-> "z"]

\* str.lower()
Lower(s) ==
    [i \in 1..Len(s) |-> IF s[i] \in DOMAIN UpperToLower THEN UpperToLower[s[i]] ELSE s[i]]

\* sub in s
Contains(s, sub) ==
    \E i \in 0..(Len(s) - Len(sub)) :
        \A j \in 1..Len(sub) : s[i + j] = sub[j]

RECURSIVE LStrip(_)
LStrip(s) ==
    IF s # <<>> /\ Head(s) \in Whitespace THEN LStrip(Tail(s)) ELSE s

RECURSIVE RStrip(_)
RStrip(s) ==
    IF s # <<>> /\ s[Len(s)] \in Whitespace THEN RStrip(SubSeq(s, 1, Len(s) - 1)) ELSE s

\* str.strip()
Strip(s) == RStrip(LStrip(s))

JoinNoSeparator(parts) ==
    LET F[i \in 0..Len(parts)] == IF i = 0 THEN <<>> ELSE F[i - 1] \o parts[i]
    IN  F[Len(parts)]

\* " ".join(parts)
Join(parts) ==
    LET F[i \in 0..Len(parts)] ==
            IF i = 0 THEN <<>>
            ELSE IF i = 1 THEN parts[1]
            ELSE F[i - 1] \o <<" ">> \o parts[i]
    IN  F[Len(parts)]

\* not prompt.strip()
IsBlank(s) == Strip(s) = <<>>

-----------------------------------------------------------------------------
(* The inputs of a run. *)

ArgValues ==
    { <<>>,
      <<" ", "\t">>,
      <<"A">>,
      <<"r","e","d">> }

ArgLists == UNION { [1..n -> ArgValues] : n \in 0..MaxArgs }

KeyValues == { <<>>, << <<>> >>, << <<"s","k">> >> }

\* The texts of the exceptions the client library raises.
ErrTexts ==
    { <<"I","n","v","a","l","i","d"," ","A","P","I"," ","k","e","y">>,
      <<"A","u","t","h","e","n","t","i","c","a","t","i","o","n"," ","f","a","i","l","e","d">>,
      <<"Q","u","o","t","a"," ","e","x","c","e","e","d","e","d">>,
      <<"R","a","t","e"," ","L","i","m","i","t"," ","h","i","t">>,
      <<"N","e","t","w","o","r","k"," ","d","o","w","n">>,
      <<"c","o","n","n","e","c","t","i","o","n"," ","r","e","s","e","t">>,
      <<"A","P","I"," ","k","e","y"," ","q","u","o","t","a">>,
      <<"r","a","t","e"," ","l","i","m","i","t",":"," ","c","o","n","n","e","c","t","i","o","n">>,
      <<"n","e","t","w","o","r","k"," ","a","u","t","h","e","n","t","i","c","a","t","i","o","n">>,
      <<"r","a","t","e"," ","n","e","t","w","o","r","k"," ","l","i","m","i","t">>,
      <<"a","p","i","k","e","y">>,
      <<"t","i","m","e","o","u","t">> }

\* The text of an exception part.as_image() raises.
ConvertErrTexts == { <<"b","a","d"," ","i","m","a","g","e">> }

\* str(TypeError) of iterating None
NotIterableText == <<"N","o","n","e","T","y","p","e">>

\* str(SystemExit(1))
ExitText == <<"1">>

NoResponse == [returned |-> FALSE, hasParts |-> FALSE, parts |-> <<>>]

NoExc == [cls |-> "none", text |-> <<>>]

TextValues == {"None", "", "hi"}

DataValues == {"None", "img1", "img2"}

Parts == [text : TextValues, inline_data : DataValues]

PartLists == UNION { [1..n -> Parts] : n \in 0..MaxParts }

\* The shapes of image save_image handles: an object whose save takes a format,
\* an object whose save takes the path only, and raw bytes.
ImageKinds == {"pil", "gemini", "bytes"}

\* hasattr(image, 'save')
HasSave(img) == img # <<>> /\ img[1].kind \in {"pil", "gemini"}

-----------------------------------------------------------------------------
(* Paths: pathlib.Path as an anchor flag and the components, each component *)
(* a sequence of pieces of text.                                            *)

DotDir == [anchored |-> FALSE, parts |-> <<>>]

OutputDirs ==
    { DotDir,
      [anchored |-> FALSE, parts |-> << <<"out">> >>],
      [anchored |-> TRUE, parts |-> << <<"srv">>, <<"img">> >>] }

Cwd == [anchored |-> TRUE, parts |-> << <<"home">>, <<"me">> >>]

Timestamps == {"20260101_120000", "20260101_120001"}

Filename(ts) == <<"nanobanana_", ts, ".png">>

\* Path(dir) / filename
PathJoin(dir, name) == [anchored |-> dir.anchored, parts |-> Append(dir.parts, name)]

\* Path.absolute()
Absolute(p) ==
    IF p.anchored THEN p ELSE [anchored |-> TRUE, parts |-> Cwd.parts \o p.parts]

\* Path.name
Name(p) == p.parts[Len(p.parts)]

-----------------------------------------------------------------------------
(* The process. *)

InitCommon ==
    /\ exitCode = -1
    /\ out = <<>>
    /\ keyRead = FALSE
    /\ clientMade = FALSE
    /\ nRequests = 0
    /\ sentPrompt = <<>>
    /\ response = NoResponse
    /\ idx = 0
    /\ exc = NoExc
    /\ caught = <<>>
    /\ filepath = <<>>
    /\ disk = {}
    /\ saveLog = <<>>
    /\ printedPath = <<>>
    /\ saveResult = <<>>
    /\ reportedName = <<>>
    /\ saveCalls = 0
    /\ failedAt = -1

Init ==
    /\ InitCommon
    /\ argv \in ArgLists
    /\ key \in KeyValues
    /\ pc = "import"
    /\ prompt = <<>>
    /\ image = <<>>
    /\ output_dir = DotDir
    /\ steps = <<>>

Say(tags) == out' = out \o tags

\* sys.exit(code), and the end of an uncaught exception
Exit(code) == /\ exitCode' = code
              /\ pc' = "exited"

\* A step failed, with n steps entered so far.
FailAt(n) == failedAt' = IF failedAt = -1 THEN n ELSE failedAt

-----------------------------------------------------------------------------
(* The import fallback, lines 12-56. *)

ImportModule ==
    /\ pc = "import"
    /\ \/ /\ pc' = "main"
          /\ UNCHANGED out
       \/ /\ Say(<<"not_installed", "attempting_install">>)
          /\ pc' = "pip_user"
    /\ UNCHANGED <<argv, key, exitCode, prompt, keyRead, clientMade, nRequests,
                   sentPrompt, response, idx, image, exc, caught, output_dir,
                   filepath, disk, saveLog, printedPath, saveResult, reportedName,
                   saveCalls, steps, failedAt>>

PipOutcomes == {"ok", "CalledProcessError", "other"}

\* sys.exit(...) after pip install succeeded
ExitAfterInstall == 0

\* pip install --user
PipUser ==
    /\ pc = "pip_user"
    /\ \E o \in PipOutcomes :
          CASE o = "ok" ->
                  /\ Say(<<"installed", "run_again">>)
                  /\ Exit(ExitAfterInstall)
            [] o = "CalledProcessError" ->
                  /\ pc' = "pip_break"
                  /\ UNCHANGED <<out, exitCode>>
            [] OTHER ->
                  /\ Say(<<"install_unexpected_error", "install_manually">>)
                  /\ Exit(1)
    /\ UNCHANGED <<argv, key, prompt, keyRead, clientMade, nRequests,
                   sentPrompt, response, idx, image, exc, caught, output_dir,
                   filepath, disk, saveLog, printedPath, saveResult, reportedName,
                   saveCalls, steps, failedAt>>

\* pip install --break-system-packages, in the handler of CalledProcessError: an
\* exception of another class raised here is caught by no clause and ends the
\* process with a traceback.
PipBreak ==
    /\ pc = "pip_break"
    /\ \E o \in PipOutcomes :
          CASE o = "ok" ->
                  /\ Say(<<"installed", "run_again">>)
                  /\ Exit(ExitAfterInstall)
            [] o = "CalledProcessError" ->
                  /\ Say(<<"install_failed", "install_manually">>)
                  /\ Exit(1)
            [] OTHER ->
                  /\ Say(<<"traceback">>)
                  /\ Exit(1)
    /\ UNCHANGED <<argv, key, prompt, keyRead, clientMade, nRequests,
                   sentPrompt, response, idx, image, exc, caught, output_dir,
                   filepath, disk, saveLog, printedPath, saveResult, reportedName,
                   saveCalls, steps, failedAt>>

-----------------------------------------------------------------------------
(* main up to the call of generate_image, lines 170-187. *)

Main ==
    /\ pc = "main"
    /\ steps' = Append(steps, "validate")
    /\ IF Len(argv) + 1 < 2
       THEN /\ Say(<<"no_prompt", "usage">>)
            /\ Exit(1)
            /\ FailAt(Len(steps) + 1)
            /\ UNCHANGED prompt
       ELSE /\ prompt' = Join(argv)
            /\ IF IsBlank(prompt')
               THEN /\ Say(<<"empty_prompt">>)
                    /\ Exit(1)
                    /\ FailAt(Len(steps) + 1)
               ELSE /\ pc' = "generate"
                    /\ UNCHANGED <<out, exitCode, failedAt>>
    /\ UNCHANGED <<argv, key, keyRead, clientMade, nRequests,
                   sentPrompt, response, idx, image, exc, caught, output_dir,
                   filepath, disk, saveLog, printedPath, saveResult, reportedName,
                   saveCalls>>

-----------------------------------------------------------------------------
(* validate_api_key and generate_image, lines 59-127. *)

KeyMissingUnsetOnly(k) == k = <<>>

\* not api_key
KeyMissing(k) == k = <<>> \/ k[1] = <<>>

\* sys.exit(1) raises SystemExit inside generate_image's try block.
ValidateApiKey ==
    /\ pc = "generate"
    /\ keyRead' = TRUE
    /\ IF KeyMissing(key)
       THEN /\ Say(<<"key_not_set", "key_instructions">>)
            /\ exc' = [cls |-> "SystemExit", text |-> ExitText]
            /\ pc' = "gen_raise"
            /\ FailAt(Len(steps))
       ELSE /\ pc' = "client"
            /\ UNCHANGED <<out, exc, failedAt>>
    /\ UNCHANGED <<argv, key, exitCode, prompt, clientMade, nRequests,
                   sentPrompt, response, idx, image, caught, output_dir,
                   filepath, disk, saveLog, printedPath, saveResult, reportedName,
                   saveCalls, steps>>

\* genai.Client(api_key=api_key) and the two prints
MakeClient ==
    /\ pc = "client"
    /\ clientMade' = TRUE
    /\ \/ /\ Say(<<"generating", "prompt_echo">>)
          /\ pc' = "request"
          /\ UNCHANGED <<exc, failedAt>>
       \/ /\ \E t \in ErrTexts : exc' = [cls |-> "Exception", text |-> t]
          /\ pc' = "gen_raise"
          /\ FailAt(Len(steps))
          /\ UNCHANGED out
    /\ UNCHANGED <<argv, key, exitCode, prompt, keyRead, nRequests,
                   sentPrompt, response, idx, image, caught, output_dir,
                   filepath, disk, saveLog, printedPath, saveResult, reportedName,
                   saveCalls, steps>>

\* client.models.generate_content(model=..., contents=[prompt])
Request ==
    /\ pc = "request"
    /\ nRequests' = nRequests + 1
    /\ sentPrompt' = Append(sentPrompt, prompt)
    /\ steps' = Append(steps, "request")
    /\ \/ /\ \E ps \in PartLists :
                response' = [returned |-> TRUE, hasParts |-> TRUE, parts |-> ps]
          /\ idx' = 1
          /\ pc' = "extract"
          /\ UNCHANGED <<exc, failedAt>>
       \/ /\ response' = [returned |-> TRUE, hasParts |-> FALSE, parts |-> <<>>]
          /\ idx' = 1
          /\ pc' = "extract"
          /\ UNCHANGED <<exc, failedAt>>
       \/ /\ \E t \in ErrTexts : exc' = [cls |-> "Exception", text |-> t]
          /\ pc' = "gen_raise"
          /\ FailAt(Len(steps'))
          /\ UNCHANGED <<response, idx>>
    /\ UNCHANGED <<argv, key, exitCode, out, prompt, keyRead, clientMade,
                   image, caught, output_dir,
                   filepath, disk, saveLog, printedPath, saveResult, reportedName,
                   saveCalls>>

PartIsTextNever(part) == FALSE

\* part.text is not None
PartIsText(part) == part.text # "None"

\* part.inline_data is not None
PartIsImage(part) == part.inline_data # "None"

\* The shapes part.as_image() may return to main.
ReturnedKinds == {"pil", "gemini"}

\* One iteration of the loop over response.parts, or its end.
ExtractStep ==
    /\ pc = "extract"
    /\ steps' = IF idx = 1 THEN Append(steps, "extract") ELSE steps
    /\ IF ~response.hasParts
       THEN /\ exc' = [cls |-> "TypeError", text |-> NotIterableText]
            /\ pc' = "gen_raise"
            /\ FailAt(Len(steps'))
            /\ UNCHANGED <<out, idx, image>>
       ELSE IF idx > Len(response.parts)
       THEN /\ Say(<<"no_image_data">>)
            /\ image' = <<>>
            /\ pc' = "gen_return"
            /\ FailAt(Len(steps'))
            /\ UNCHANGED <<idx, exc>>
       ELSE IF PartIsText(response.parts[idx])
       THEN /\ Say(<<"model_response">>)
            /\ idx' = idx + 1
            /\ UNCHANGED <<pc, image, exc, failedAt>>
       ELSE IF PartIsImage(response.parts[idx])
       THEN /\ Say(<<"image_generated">>)
            /\ \/ /\ \E k \in ReturnedKinds :
                        image' = << [kind |-> k,
                                     payload |-> response.parts[idx].inline_data] >>
                  /\ pc' = "gen_return"
                  /\ UNCHANGED <<exc, failedAt>>
               \/ /\ \E t \in ConvertErrTexts : exc' = [cls |-> "Exception", text |-> t]
                  /\ pc' = "gen_raise"
                  /\ FailAt(Len(steps'))
                  /\ UNCHANGED image
            /\ UNCHANGED idx
       ELSE /\ idx' = idx + 1
            /\ UNCHANGED <<out, pc, image, exc, failedAt>>
    /\ UNCHANGED <<argv, key, exitCode, prompt, keyRead, clientMade, nRequests,
                   sentPrompt, response, caught, output_dir,
                   filepath, disk, saveLog, printedPath, saveResult, reportedName,
                   saveCalls>>

CredentialWords == { <<"a","p","i"," ","k","e","y">>,
                     <<"a","u","t","h","e","n","t","i","c","a","t","i","o","n">> }

ThrottleWords == { <<"q","u","o","t","a">>,
                   <<"r","a","t","e"," ","l","i","m","i","t">> }

ConnectWords == { <<"n","e","t","w","o","r","k">>,
                  <<"c","o","n","n","e","c","t","i","o","n">> }

\* "w1" in error_str or "w2" in error_str
Mentions(s, words) == \E w \in words : Contains(s, w)

GuidanceBlocksIndependent(text) ==
    LET error_str == Lower(text)
    IN  (IF Mentions(error_str, CredentialWords) THEN <<"hint_credential">> ELSE <<>>)
        \o (IF Mentions(error_str, ThrottleWords) THEN <<"hint_throttle">> ELSE <<>>)
        \o (IF Mentions(error_str, ConnectWords) THEN <<"hint_connect">> ELSE <<>>)

\* The if / elif / elif of lines 110-125.
GuidanceBlocks(text) ==
    LET error_str == Lower(text)
    IN  IF Mentions(error_str, CredentialWords) THEN <<"hint_credential">>
        ELSE IF Mentions(error_str, ThrottleWords) THEN <<"hint_throttle">>
        ELSE IF Mentions(error_str, ConnectWords) THEN <<"hint_connect">>
        ELSE <<>>

\* except Exception: SystemExit is a BaseException and no Exception.
GenCatches(cls) == cls # "SystemExit"

\* The handler of generate_image, or the exception leaving generate_image and
\* then main, which ends the process with SystemExit's code.
GenExcept ==
    /\ pc = "gen_raise"
    /\ IF GenCatches(exc.cls)
       THEN /\ Say(<<"gen_error">> \o GuidanceBlocks(exc.text))
            /\ caught' = Append(caught, exc)
            /\ exc' = NoExc
            /\ image' = <<>>
            /\ pc' = "gen_return"
            /\ UNCHANGED exitCode
       ELSE /\ Exit(1)
            /\ UNCHANGED <<out, caught, exc, image>>
    /\ UNCHANGED <<argv, key, prompt, keyRead, clientMade, nRequests,
                   sentPrompt, response, idx, output_dir,
                   filepath, disk, saveLog, printedPath, saveResult, reportedName,
                   saveCalls, steps, failedAt>>

ImageMissingNever(img) == FALSE

\* image is None
ImageMissing(img) == img = <<>>

\* main, lines 188-192
MainAfterGenerate ==
    /\ pc = "gen_return"
    /\ IF ImageMissing(image)
       THEN Exit(1)
       ELSE /\ pc' = "save_call"
            /\ UNCHANGED exitCode
    /\ UNCHANGED <<argv, key, out, prompt, keyRead, clientMade, nRequests,
                   sentPrompt, response, idx, image, exc, caught, output_dir,
                   filepath, disk, saveLog, printedPath, saveResult, reportedName,
                   saveCalls, steps, failedAt>>

-----------------------------------------------------------------------------
(* save_image, lines 130-167.  image.save belongs to the image library: it   *)
(* either writes the whole file or raises and leaves none behind; open and   *)
(* f.write are the script's own and are modelled step by step.               *)

SaveErrors == {"TypeError", "OSError"}

\* What image.save(filepath, "PNG") can do: the save of the Gemini image takes
\* the path only, so two arguments are a TypeError.
GenericOutcomes(img) ==
    IF img.kind = "gemini" THEN {"TypeError"} ELSE {"ok"} \cup SaveErrors

\* lines 143-148
SaveEnter ==
    /\ pc = "save_call"
    /\ saveCalls' = saveCalls + 1
    /\ steps' = Append(steps, "save")
    /\ \E ts \in Timestamps : filepath' = << PathJoin(output_dir, Filename(ts)) >>
    /\ pc' = IF HasSave(image) THEN "save_generic" ELSE "raw_open"
    /\ UNCHANGED <<argv, key, exitCode, out, prompt, keyRead, clientMade, nRequests,
                   sentPrompt, response, idx, image, exc, caught, output_dir,
                   disk, saveLog, printedPath, saveResult, reportedName, failedAt>>

FallbackOnAnyError(cls) == cls # "ok"

\* except TypeError
FallbackOn(cls) == cls = "TypeError"

Written(p) == [path |-> Absolute(p), content |-> "full"]

\* image.save(filepath, "PNG")
SaveGeneric ==
    /\ pc = "save_generic"
    /\ \E o \in GenericOutcomes(image[1]) :
          /\ saveLog' = Append(saveLog, [op |-> "generic", outcome |-> o])
          /\ IF o = "ok"
             THEN /\ disk' = disk \cup {Written(filepath[1])}
                  /\ pc' = "save_ok"
                  /\ UNCHANGED exc
             ELSE IF FallbackOn(o)
             THEN /\ pc' = "save_plain"
                  /\ UNCHANGED <<disk, exc>>
             ELSE /\ exc' = [cls |-> o, text |-> <<>>]
                  /\ pc' = "save_raise"
                  /\ UNCHANGED disk
    /\ UNCHANGED <<argv, key, exitCode, out, prompt, keyRead, clientMade, nRequests,
                   sentPrompt, response, idx, image, caught, output_dir, filepath,
                   printedPath, saveResult, reportedName, saveCalls, steps, failedAt>>

\* image.save(str(filepath)), in the handler of TypeError
SavePlain ==
    /\ pc = "save_plain"
    /\ \E o \in {"ok"} \cup SaveErrors :
          /\ saveLog' = Append(saveLog, [op |-> "plain", outcome |-> o])
          /\ IF o = "ok"
             THEN /\ disk' = disk \cup {Written(filepath[1])}
                  /\ pc' = "save_ok"
                  /\ UNCHANGED exc
             ELSE /\ exc' = [cls |-> o, text |-> <<>>]
                  /\ pc' = "save_raise"
                  /\ UNCHANGED disk
    /\ UNCHANGED <<argv, key, exitCode, out, prompt, keyRead, clientMade, nRequests,
                   sentPrompt, response, idx, image, caught, output_dir, filepath,
                   printedPath, saveResult, reportedName, saveCalls, steps, failedAt>>

\* open(filepath, 'wb'): the file exists, empty, as soon as it is open.
RawOpen ==
    /\ pc = "raw_open"
    /\ \/ /\ saveLog' = Append(saveLog, [op |-> "open", outcome |-> "ok"])
          /\ disk' = disk \cup {[path |-> Absolute(filepath[1]), content |-> "empty"]}
          /\ pc' = "raw_write"
          /\ UNCHANGED exc
       \/ /\ saveLog' = Append(saveLog, [op |-> "open", outcome |-> "OSError"])
          /\ exc' = [cls |-> "OSError", text |-> <<>>]
          /\ pc' = "save_raise"
          /\ UNCHANGED disk
    /\ UNCHANGED <<argv, key, exitCode, out, prompt, keyRead, clientMade, nRequests,
                   sentPrompt, response, idx, image, caught, output_dir, filepath,
                   printedPath, saveResult, reportedName, saveCalls, steps, failedAt>>

\* f.write(image) and the end of the with block, which closes the file and
\* removes nothing.
RawWrite ==
    /\ pc = "raw_write"
    /\ \/ /\ saveLog' = Append(saveLog, [op |-> "write", outcome |-> "ok"])
          /\ disk' = {[path |-> Absolute(filepath[1]), content |-> "full"]}
          /\ pc' = "save_ok"
          /\ UNCHANGED exc
       \/ /\ saveLog' = Append(saveLog, [op |-> "write", outcome |-> "TypeError"])
          /\ exc' = [cls |-> "TypeError", text |-> <<>>]
          /\ pc' = "save_raise"
          /\ UNCHANGED disk
       \/ /\ saveLog' = Append(saveLog, [op |-> "write", outcome |-> "OSError"])
          /\ \E c \in {"empty", "partial"} :
                disk' = {[path |-> Absolute(filepath[1]), content |-> c]}
          /\ exc' = [cls |-> "OSError", text |-> <<>>]
          /\ pc' = "save_raise"
    /\ UNCHANGED <<argv, key, exitCode, out, prompt, keyRead, clientMade, nRequests,
                   sentPrompt, response, idx, image, caught, output_dir, filepath,
                   printedPath, saveResult, reportedName, saveCalls, steps, failedAt>>

SaveReturnAbsolute(p) == Absolute(p)

\* return filepath
SaveReturnValue(p) == p

\* lines 158-159
SaveOk ==
    /\ pc = "save_ok"
    /\ Say(<<"image_saved">>)
    /\ printedPath' = << Absolute(filepath[1]) >>
    /\ saveResult' = << SaveReturnValue(filepath[1]) >>
    /\ pc' = "save_return"
    /\ UNCHANGED <<argv, key, exitCode, prompt, keyRead, clientMade, nRequests,
                   sentPrompt, response, idx, image, exc, caught, output_dir, filepath,
                   disk, saveLog, reportedName, saveCalls, steps, failedAt>>

SaveCatchesOSErrorOnly(cls) == cls = "OSError"

\* except Exception
SaveCatches(cls) == cls \in SaveErrors

\* The handler of save_image, lines 161-167; an exception it does not catch
\* leaves save_image and main and ends the process with a traceback.
SaveExcept ==
    /\ pc = "save_raise"
    /\ FailAt(Len(steps))
    /\ IF SaveCatches(exc.cls)
       THEN /\ Say(<<"save_error", "save_causes">>)
            /\ caught' = Append(caught, exc)
            /\ exc' = NoExc
            /\ saveResult' = <<>>
            /\ pc' = "save_return"
            /\ UNCHANGED exitCode
       ELSE /\ Say(<<"traceback">>)
            /\ Exit(1)
            /\ UNCHANGED <<caught, exc, saveResult>>
    /\ UNCHANGED <<argv, key, prompt, keyRead, clientMade, nRequests,
                   sentPrompt, response, idx, image, output_dir, filepath,
                   disk, saveLog, printedPath, reportedName, saveCalls, steps>>

SaveMissingNever(r) == FALSE

\* filepath is None
SaveMissing(r) == r = <<>>

\* main, lines 193-197: the process ends with status 0 when main returns.
MainAfterSave ==
    /\ pc = "save_return"
    /\ IF SaveMissing(saveResult)
       THEN /\ Exit(1)
            /\ UNCHANGED <<out, reportedName, steps>>
       ELSE /\ steps' = Append(steps, "report")
            /\ Say(<<"complete", "saved_as">>)
            /\ reportedName' = IF saveResult = <<>> THEN <<>> ELSE << Name(saveResult[1]) >>
            /\ Exit(0)
    /\ UNCHANGED <<argv, key, prompt, keyRead, clientMade, nRequests,
                   sentPrompt, response, idx, image, exc, caught, output_dir, filepath,
                   disk, saveLog, printedPath, saveResult, saveCalls, failedAt>>

-----------------------------------------------------------------------------
(* The program: python generate.py <args>. *)

Next ==
    \/ ImportModule
    \/ PipUser
    \/ PipBreak
    \/ Main
    \/ ValidateApiKey
    \/ MakeClient
    \/ Request
    \/ ExtractStep
    \/ GenExcept
    \/ MainAfterGenerate
    \/ SaveEnter
    \/ SaveGeneric
    \/ SavePlain
    \/ SaveOk
    \/ SaveExcept
    \/ MainAfterSave

Spec == Init /\ [][Next]_vars

(* save_image(image, output_dir) called with any image it handles and any    *)
(* directory, by a caller that treats its result as main does.               *)

InitSave ==
    /\ InitCommon
    /\ argv = << <<"A">> >>
    /\ key = << <<"s","k">> >>
    /\ prompt = <<"A">>
    /\ pc = "save_call"
    /\ image \in { << [kind |-> k, payload |-> d] >> : k \in ImageKinds, d \in {"img1"} }
    /\ output_dir \in OutputDirs
    /\ steps = <<>>

NextSave ==
    \/ SaveEnter
    \/ SaveGeneric
    \/ SavePlain
    \/ RawOpen
    \/ RawWrite
    \/ SaveOk
    \/ SaveExcept
    \/ MainAfterSave

SpecSave == InitSave /\ [][NextSave]_vars

-----------------------------------------------------------------------------
(* What is checked. *)

Range(q) == { q[i] : i \in 1..Len(q) }

Printed(tag) == tag \in Range(out)

Exited == pc = "exited"

\* The credential is unset or the empty string.
CredentialAbsent == key = <<>> \/ key = << <<>> >>

\* C1: once the credential has been looked up and found absent (unset or empty),
\* the run never constructs a client and never issues a request, the failure
\* handler of generate_image catches and prints nothing, and the only way on
\* is the process ending with exit code 1.
C1_MissingKeyExitsBeforeClient ==
    (keyRead /\ CredentialAbsent) =>
        /\ ~clientMade
        /\ nRequests = 0
        /\ caught = <<>>
        /\ ~Printed("gen_error")
        /\ Printed("key_not_set")
        /\ pc \in {"gen_raise", "exited"}
        /\ pc = "gen_raise" => exc.cls = "SystemExit"
        /\ Exited => exitCode = 1

C1_Witness ==
    /\ Exited
    /\ exitCode = 1
    /\ keyRead
    /\ key = << <<>> >>
    /\ prompt = <<"A">>

\* A request returned an image and that image was written to a file.
ImageSaved ==
    /\ nRequests = 1
    /\ image # <<>>
    /\ saveResult # <<>>
    /\ \E f \in disk : f.content = "full"

\* The import of google-genai failed and pip installed it.
Installed == Printed("installed")

\* C2 as stated: the process exits with code 0 if and only if a request
\* returned an image and the image was saved; every other run exits with 1.
C2_ExitZeroIffSaved ==
    Exited => /\ exitCode \in {0, 1}
              /\ exitCode = 0 <=> ImageSaved

\* C2 amended: the process exits with code 0 if and only if a request returned
\* an image and the image was saved, or the import of google-genai failed and
\* the automatic install succeeded (then nothing was requested or written);
\* every validation, generation, save or install failure exits with code 1.
C2_ExitZeroIffSavedOrInstalled ==
    Exited => /\ exitCode \in {0, 1}
              /\ exitCode = 0 <=> (ImageSaved \/ Installed)
              /\ Installed => (nRequests = 0 /\ disk = {} /\ steps = <<>>)
              /\ failedAt # -1 => exitCode = 1

C2_Witness ==
    /\ Exited
    /\ exitCode = 0
    /\ ImageSaved
    /\ Printed("complete")

\* The positions of the parts the claim counts as carrying image data.
DataParts == { i \in 1..Len(response.parts) : response.parts[i].inline_data # "None" }

\* The positions of the parts with image data and no text.
PureDataParts == { i \in DataParts : response.parts[i].text = "None" }

First(S) == CHOOSE i \in S : \A j \in S : i <= j

\* generate_image returned from the loop over the parts of a response (no
\* exception was raised on the way).
Extracted == pc = "gen_return" /\ response.hasParts /\ caught = <<>>

ReturnsFirstOf(S) ==
    IF S = {}
    THEN image = <<>>
    ELSE /\ image # <<>>
         /\ idx = First(S)
         /\ image[1].payload = response.parts[First(S)].inline_data

SaveSucceeded == pc \in {"save_return", "exited"} /\ saveResult # <<>>

\* C4 as stated: the value save_image returns on success is the absolute path
\* of the file that was written.
C4_ReturnsAbsolutePath ==
    SaveSucceeded =>
        /\ saveResult[1].anchored
        /\ [path |-> saveResult[1], content |-> "full"] \in disk

\* C4 amended: the value save_image returns on success is output_dir joined
\* with the generated file name, absolute only when output_dir is absolute (for
\* the default '.', the bare file name); what is absolute is the path it prints,
\* which is the returned path made absolute and the path of the file written.
C4_ReturnsJoinedPath ==
    SaveSucceeded =>
        LET r == saveResult[1]
        IN  /\ r.parts = Append(output_dir.parts, Name(r))
            /\ r.anchored = output_dir.anchored
            /\ \E ts \in Timestamps : Name(r) = <<"nanobanana_", ts, ".png">>
            /\ printedPath # <<>>
            /\ printedPath[1].anchored
            /\ printedPath[1].parts =
                   (IF output_dir.anchored THEN <<>> ELSE Cwd.parts) \o r.parts
            /\ [path |-> printedPath[1], content |-> "full"] \in disk

C4_Witness ==
    /\ SaveSucceeded
    /\ output_dir = DotDir
    /\ Len(saveResult[1].parts) = 1

\* A save attempt failed and no fallback absorbs the failure: every attempt that
\* did not succeed, but the generic attempt's TypeError, which makes save_image
\* try the plain save.
SaveFailed ==
    \E i \in 1..Len(saveLog) :
        /\ saveLog[i].outcome # "ok"
        /\ ~(saveLog[i].op = "generic" /\ saveLog[i].outcome = "TypeError")

Sum(lens) ==
    LET F[i \in 0..Len(lens)] == IF i = 0 THEN 0 ELSE F[i - 1] + lens[i]
    IN  F[Len(lens)]

\* Where argument k starts in the arguments joined by single spaces.
Offset(args, k) == Sum([j \in 1..(k - 1) |-> Len(args[j]) + 1])

\* p is the arguments, in order, with one space between neighbours.
JoinedBySpaces(p, args) ==
    /\ Len(p) = Sum([j \in 1..Len(args) |-> Len(args[j])]) + Len(args) - 1
    /\ \A k \in 1..Len(args) :
          /\ \A i \in 1..Len(args[k]) : p[Offset(args, k) + i] = args[k][i]
          /\ k > 1 => p[Offset(args, k)] = " "

\* No argument, or nothing but whitespace in the arguments.
NoPrompt == \A k \in 1..Len(argv) : \A i \in 1..Len(argv[k]) : argv[k][i] \in Whitespace

RejectedEarly ==
    /\ ~keyRead
    /\ ~clientMade
    /\ nRequests = 0
    /\ saveCalls = 0
    /\ disk = {}

\* C6 as stated: whatever else holds of the run, without a prompt the program
\* exits with code 1 before the credential is looked up, a request is issued
\* or a file is written; otherwise the prompt sent is the arguments joined by
\* single spaces.
C6_NoPromptExitsOne ==
    IF NoPrompt
    THEN RejectedEarly /\ (Exited => exitCode = 1)
    ELSE \A i \in 1..Len(sentPrompt) : JoinedBySpaces(sentPrompt[i], argv)

\* C6 amended: when the import of google-genai succeeds, so that main runs,
\* without a prompt main exits with code 1 before the credential is looked up, a
\* request is issued or a file is written, and otherwise the prompt sent is the
\* arguments joined by single spaces.  (When the import fails the program tries
\* to install the package and exits, with 0 when the install succeeds, whatever
\* the arguments.)
C6_MainRejectsNoPrompt ==
    /\ NoPrompt => RejectedEarly
    /\ steps # <<>> =>
          IF NoPrompt
          THEN /\ Exited
               /\ exitCode = 1
               /\ Printed("no_prompt") \/ Printed("empty_prompt")
               /\ Printed("no_prompt") <=> argv = <<>>
          ELSE /\ JoinedBySpaces(prompt, argv)
               /\ \A i \in 1..Len(sentPrompt) : JoinedBySpaces(sentPrompt[i], argv)
    /\ steps = <<>> => (nRequests = 0 /\ ~keyRead)

C6_Witness ==
    /\ nRequests = 1
    /\ argv = << <<"A">>, <<"r","e","d">> >>
    /\ sentPrompt = << <<"A"," ","r","e","d">> >>

\* C7: for an image with a save operation the first attempt is the generic
\* save; the plain save is attempted if and only if the generic attempt raised
\* TypeError; another error of the generic attempt goes to the reported save
\* failure with no second attempt; a generic attempt that succeeded is followed
\* by no second save.
C7_GenericThenPlainOnTypeError ==
    (HasSave(image) /\ saveLog # <<>>) =>
        /\ saveLog[1].op = "generic"
        /\ Len(saveLog) <= 2
        /\ Len(saveLog) = 2 => saveLog[2].op = "plain"
        /\ saveLog[1].outcome = "TypeError" => (Len(saveLog) = 2 \/ pc = "save_plain")
        /\ saveLog[1].outcome # "TypeError" => (Len(saveLog) = 1 /\ pc # "save_plain")
        /\ saveLog[1].outcome = "OSError" =>
              /\ pc \in {"save_raise", "save_return", "exited"}
              /\ pc # "save_raise" => (saveResult = <<>> /\ Printed("save_error"))
        /\ saveLog[1].outcome = "ok" => pc \in {"save_ok", "save_return", "exited"}

C7_Witness ==
    /\ HasSave(image)
    /\ image[1].kind = "pil"
    /\ Len(saveLog) = 2
    /\ saveLog[1].outcome = "TypeError"
    /\ saveLog[2].outcome = "ok"
    /\ pc = "save_return"

Hints == SelectSeq(out, LAMBDA t : t \in {"hint_credential", "hint_throttle", "hint_connect"})

\* C8: when generate_image's handler has caught a failure, the guidance printed
\* is the credential guidance if the lower-cased text mentions 'api key' or
\* 'authentication'; else the throttling guidance if it mentions 'quota' or
\* 'rate limit'; else the connectivity guidance if it mentions 'network' or
\* 'connection'; else none.  At most one block is printed and generate_image
\* returns None.
C8_FirstMatchingGuidance ==
    Printed("gen_error") =>
        LET low == Lower(caught[1].text)
            m1 == Contains(low, <<"a","p","i"," ","k","e","y">>)
                    \/ Contains(low, <<"a","u","t","h","e","n","t","i","c","a","t","i","o","n">>)
            m2 == Contains(low, <<"q","u","o","t","a">>)
                    \/ Contains(low, <<"r","a","t","e"," ","l","i","m","i","t">>)
            m3 == Contains(low, <<"n","e","t","w","o","r","k">>)
                    \/ Contains(low, <<"c","o","n","n","e","c","t","i","o","n">>)
        IN  /\ Len(Hints) <= 1
            /\ Hints = <<"hint_credential">> <=> m1
            /\ Hints = <<"hint_throttle">> <=> (~m1 /\ m2)
            /\ Hints = <<"hint_connect">> <=> (~m1 /\ ~m2 /\ m3)
            /\ Hints = <<>> <=> (~m1 /\ ~m2 /\ ~m3)
            /\ image = <<>>
            /\ pc \in {"gen_return", "exited"}
            /\ Exited => exitCode = 1

C8_Witness ==
    /\ Printed("gen_error")
    /\ caught[1].text = <<"r","a","t","e"," ","l","i","m","i","t",":"," ",
                          "c","o","n","n","e","c","t","i","o","n">>
    /\ Hints = <<"hint_throttle">>
    /\ pc = "gen_return"

Flow == <<"validate", "request", "extract", "save", "report">>

\* C9: the steps entered are an initial part of validate, request, extract,
\* save, report, each at most once; at most one request is issued; save_image
\* is entered at most once and only with the image a request returned; the
\* success report follows a save that returned a path; once a step has failed
\* no further step is entered.
C9_LinearFlow ==
    /\ Len(steps) <= Len(Flow)
    /\ steps = SubSeq(Flow, 1, Len(steps))
    /\ nRequests <= 1
    /\ saveCalls <= 1
    /\ nRequests = (IF Len(steps) >= 2 THEN 1 ELSE 0)
    /\ saveCalls = (IF Len(steps) >= 4 THEN 1 ELSE 0)
    /\ (pc = "save_call" \/ saveCalls = 1) =>
          /\ nRequests = 1
          /\ image # <<>>
          /\ response.hasParts
          /\ image[1].payload \in { response.parts[i].inline_data : i \in 1..Len(response.parts) }
    /\ Printed("complete") => (saveResult # <<>> /\ steps = Flow)
    /\ failedAt # -1 => (Len(steps) = failedAt /\ ~Printed("complete"))

C9_Witness ==
    /\ steps = Flow
    /\ Exited
    /\ exitCode = 0
    /\ failedAt = -1

\* C10: when save_image has returned None, this run has left no file behind.
C10_NoFileLeftOnFailure ==
    (pc \in {"save_return", "exited"} /\ saveCalls = 1 /\ saveResult = <<>>) => disk = {}

====
